---- MODULE Spec2Model ----
(***************************************************************************)
(* JOWA backend (src/backend.py): five Flask handlers over a PostgreSQL    *)
(* database reached through psycopg2.                                      *)
(*                                                                         *)
(* The database is modelled as its committed tables plus, per open         *)
(* connection, the rows written by the connection's transaction that are   *)
(* not committed yet (psycopg2 opens a transaction at the first statement  *)
(* and only conn.commit() at line 311 makes its rows visible to others).   *)
(* create_job is modelled statement by statement, so that requests served  *)
(* by different workers interleave; the four read handlers issue snapshot  *)
(* reads and are one step each.                                            *)
(*                                                                         *)
(* SQL NULL / Python None / JSON null is the empty tuple <<>>, a value v   *)
(* that may be NULL is <<v>>.  Time is counted in minutes.                 *)
(***************************************************************************)
EXTENDS Integers, Sequences, FiniteSets, TLC

VARIABLES
    employers,   \* committed rows of table employers
    jobs,        \* committed rows of table jobs
    payments,    \* committed rows of table payments (never written here)
    users,       \* number of rows of table users (never written here)
    empSeq,      \* last value of the id sequence of employers
    jobSeq,      \* last value of the id sequence of jobs
    now,         \* the database clock, NOW()
    cj,          \* create_job requests: one record of handler locals per worker
    rd           \* the last request served by a read handler, and its response

vars == <<employers, jobs, payments, users, empSeq, jobSeq, now, cj, rd>>

-----------------------------------------------------------------------------
(* Bounds of the model *)

\* number of workers serving create_job concurrently
NumReqs == 2
\* transactions begun by create_job in a run of Spec
MaxTx == 2
\* transactions begun by create_job in a run of SpecRead
MaxTxRead == 2
\* transactions begun by create_job in a run of SpecSeq (one request at a time)
MaxTxSeq == 4
\* transactions begun by create_job in a run of SpecLive (live database)
MaxTxLive == 11
\* largest age, in days, of the job listed in SpecLabel
MaxAgeDays == 30
\* rows of table users
InitUsers == 2

(* Constants of the program *)

\* INTERVAL '1 hour', in minutes
HOUR == 60
\* INTERVAL '24 hours', in minutes
DAY == 1440
\* LIMIT 10 of the jobs query
JobsLimit == 10
\* LIMIT 5 of the payments query
PaymentsLimit == 5

Reqs == 1..NumReqs

-----------------------------------------------------------------------------
(* Python and SQL helpers *)

NULL == <<>>

\* dict.get(k, default)
Get(d, k, default) == IF k \in DOMAIN d THEN d[k] ELSE default

\* dict.get(k): None when the key is absent
GetOpt(d, k) == IF k \in DOMAIN d THEN <<d[k]>> ELSE NULL

\* `x or default` for a string column: None and "" are falsy
OrElse(x, default) == IF x = NULL \/ x[1] = "" THEN default ELSE x[1]

\* truth value of a numeric column: None and 0 are falsy
Truthy(x) == x # NULL /\ x[1] # 0

Min(a, b) == IF a < b THEN a ELSE b

\* the first n elements of a sequence (LIMIT n)
Limit(s, n) == SubSeq(s, 1, Min(n, Len(s)))

\* ORDER BY created_at DESC over a set of rows
RECURSIVE OrderByCreatedDesc(_)
OrderByCreatedDesc(S) ==
    IF S = {} THEN <<>>
    ELSE LET m == CHOOSE x \in S : \A y \in S : x.created_at >= y.created_at
         IN  <<m>> \o OrderByCreatedDesc(S \ {m})

RECURSIVE SumAmount(_)
SumAmount(S) ==
    IF S = {} THEN 0
    ELSE LET p == CHOOSE x \in S : TRUE IN p.amount + SumAmount(S \ {p})

-----------------------------------------------------------------------------
(* Calendar: TO_CHAR of a timestamp.  Minute 0 is 2024-01-01 00:00. *)

IsLeap(y) == (y % 4 = 0 /\ y % 100 # 0) \/ y % 400 = 0

DaysInYear(y) == IF IsLeap(y) THEN 366 ELSE 365

DaysInMonth(y, m) ==
    IF m = 2 THEN (IF IsLeap(y) THEN 29 ELSE 28)
    ELSE IF m \in {4, 6, 9, 11} THEN 30 ELSE 31

MonthName(m) ==
    <<"Jan", "Feb", "Mar", "Apr", "May", "Jun",
      "Jul", "Aug", "Sep", "Oct", "Nov", "Dec">>[m]

RECURSIVE YearOf(_, _)
YearOf(d, y) == IF d < DaysInYear(y) THEN <<y, d>> ELSE YearOf(d - DaysInYear(y), y + 1)

RECURSIVE MonthOf(_, _, _)
MonthOf(d, y, m) ==
    IF d < DaysInMonth(y, m) THEN <<m, d + 1>> ELSE MonthOf(d - DaysInMonth(y, m), y, m + 1)

\* <<year, month, day of month>> of a timestamp
DateOf(t) ==
    LET yd == YearOf(t \div DAY, 2024)
        md == MonthOf(yd[2], yd[1], 1)
    IN  <<yd[1], md[1], md[2]>>

Pad2(n) == IF n < 10 THEN "0" \o ToString(n) ELSE ToString(n)

\* TO_CHAR(t, 'DD Mon YYYY')
ToCharDDMonYYYY(t) ==
    LET d == DateOf(t)
    IN  Pad2(d[3]) \o " " \o MonthName(d[2]) \o " " \o ToString(d[1])

\* TO_CHAR(t, 'YYYY-MM-DD')
ToCharISO(t) ==
    LET d == DateOf(t)
    IN  ToString(d[1]) \o "-" \o Pad2(d[2]) \o "-" \o Pad2(d[3])

\* EXTRACT(HOUR FROM i) of an interval i = later - earlier timestamp:
\* the hours field of the interval's time part
ExtractHour(i) == (i % DAY) \div HOUR

-----------------------------------------------------------------------------
(* The read queries and the shaping of their rows *)

\* PostedLabel with the boundaries compared by >= instead of >
PostedLabelInclusive(t, created_at) ==
    IF created_at >= t - HOUR THEN "Just now"
    ELSE IF created_at >= t - DAY
         THEN ToString(ExtractHour(t - created_at)) \o " hours ago"
         ELSE ToCharDDMonYYYY(created_at)

\* the CASE expression of the jobs query: the posted label at time t
PostedLabel(t, created_at) ==
    IF created_at > t - HOUR THEN "Just now"
    ELSE IF created_at > t - DAY
         THEN ToString(ExtractHour(t - created_at)) \o " hours ago"
         ELSE ToCharDDMonYYYY(created_at)

\* LEFT JOIN employers e ON j.employer_id = e.id: e.company_name, or NULL
CompanyOf(j, employersT) ==
    LET es == {e \in employersT : e.id = j.employer_id}
    IN  IF es = {} THEN NULL ELSE (CHOOSE e \in es : TRUE).company_name

\* one row of the jobs query
JobsRow(j, employersT, t) ==
    [id             |-> j.id,
     title          |-> j.title,
     description    |-> j.description,
     location       |-> j.location,
     payment_amount |-> j.payment_amount,
     payment_type   |-> j.payment_type,
     status         |-> j.status,
     company_name   |-> CompanyOf(j, employersT),
     posted         |-> <<PostedLabel(t, j.created_at)>>]

\* JobsQuery without the WHERE clause
JobsQueryNoFilter(jobsT, employersT, t) ==
    LET ordered == Limit(OrderByCreatedDesc(jobsT), JobsLimit)
    IN  [i \in 1..Len(ordered) |-> JobsRow(ordered[i], employersT, t)]

\* the jobs query: cur.execute(...) and cur.fetchall()
JobsQuery(jobsT, employersT, t) ==
    LET active  == {j \in jobsT : j.status = "active"}
        ordered == Limit(OrderByCreatedDesc(active), JobsLimit)
    IN  [i \in 1..Len(ordered) |-> JobsRow(ordered[i], employersT, t)]

\* str() of a value inside an f-string
FStr(x) == IF x = NULL THEN "None" ELSE x[1]

\* RenderSalary testing the amount with `is not None`
RenderSalaryPresent(payment_amount, payment_type) ==
    IF payment_amount # NULL
    THEN "K" \o ToString(payment_amount[1]) \o "/" \o FStr(payment_type)
    ELSE "Negotiable"

\* the "salary" entry of a listed job
RenderSalary(payment_amount, payment_type) ==
    IF Truthy(payment_amount)
    THEN "K" \o ToString(payment_amount[1]) \o "/" \o FStr(payment_type)
    ELSE "Negotiable"

\* the dict appended to jobs_list for one row
ShapeJob(row) ==
    [id          |-> row.id,
     title       |-> row.title,
     description |-> OrElse(row.description, "No description available"),
     location    |-> OrElse(row.location, "Not specified"),
     salary      |-> RenderSalary(row.payment_amount, row.payment_type),
     type        |-> OrElse(row.payment_type, "Not specified"),
     category    |-> "general",
     company     |-> OrElse(row.company_name, "Company not specified"),
     posted      |-> OrElse(row.posted, "Recently")]

\* the literal list returned when there is no connection (lines 131-154)
MockJobsNoDb ==
    << [id          |-> 1,
        title       |-> <<"Construction Worker">>,
        description |-> "General construction work at building sites.",
        location    |-> "Lusaka",
        salary      |-> "K120/day",
        type        |-> "Daily",
        category    |-> "construction",
        company     |-> "ZamBuild Construction",
        posted      |-> "2 hours ago"],
       [id          |-> 2,
        title       |-> <<"Farm Assistant">>,
        description |-> "Assist with farming activities.",
        location    |-> "Ndola",
        salary      |-> "K80/day",
        type        |-> "Daily",
        category    |-> "farming",
        company     |-> "Green Valley Farms",
        posted      |-> "5 hours ago"] >>

\* the literal list returned from the except branch (lines 198-221)
MockJobsOnError ==
    << [id          |-> 1,
        title       |-> <<"Construction Worker">>,
        description |-> "General construction work at building sites.",
        location    |-> "Lusaka",
        salary      |-> "K120/day",
        type        |-> "Daily",
        category    |-> "construction",
        company     |-> "ZamBuild Construction",
        posted      |-> "2 hours ago"],
       [id          |-> 2,
        title       |-> <<"Farm Assistant">>,
        description |-> "Assist with farming activities.",
        location    |-> "Ndola",
        salary      |-> "K80/day",
        type        |-> "Daily",
        category    |-> "farming",
        company     |-> "Green Valley Farms",
        posted      |-> "5 hours ago"] >>

\* the payments query: the rows in the order of ORDER BY created_at DESC LIMIT 5
PaymentsQuery(paymentsT) ==
    LET ordered == Limit(OrderByCreatedDesc(paymentsT), PaymentsLimit)
    IN  [i \in 1..Len(ordered) |->
            [purpose        |-> ordered[i].purpose,
             amount         |-> ordered[i].amount,
             status         |-> ordered[i].status,
             date           |-> ToCharISO(ordered[i].created_at),
             transaction_id |-> ordered[i].transaction_id]]

\* the dict appended to payments_list for one row
ShapePayment(row) ==
    [description |-> row.purpose,
     amount      |-> "K" \o ToString(row.amount),
     status      |-> row.status,
     date        |-> row.date,
     reference   |-> OrElse(row.transaction_id, "N/A")]

\* the four aggregates of get_stats
StatsQuery(usersT, jobsT, employersT, paymentsT) ==
    [total_users     |-> usersT,
     active_jobs     |-> Cardinality({j \in jobsT : j.status = "active"}),
     total_employers |-> Cardinality(employersT),
     total_revenue   |-> SumAmount({p \in paymentsT : p.status = "completed"})]

-----------------------------------------------------------------------------
(* Requests and environments *)

\* request bodies of create_job: every JSON value v is <<v>>, JSON null is NULL
BodyExample  == [title |-> <<"T">>, phone |-> <<"+260999">>]
BodyFull     == [title |-> <<"T2">>, phone |-> <<"+260999">>, company |-> <<"ZamBuild">>,
                 description |-> <<"D">>, location |-> <<"Lusaka">>,
                 salary |-> <<120>>, type |-> <<"daily">>]
BodyKnown    == [title |-> <<"T3">>, phone |-> <<"+260111">>, salary |-> NULL,
                 type |-> <<"hourly">>]
BodyDefaults == [title |-> <<"T4">>]

\* what request.get_json() yields: no body (None), the empty object, a body
\* that does not parse (get_json raises), or an object
NoData      == [kind |-> "absent", obj |-> BodyDefaults]
EmptyData   == [kind |-> "empty", obj |-> BodyDefaults]
BadData     == [kind |-> "malformed", obj |-> BodyDefaults]
Object(b)   == [kind |-> "object", obj |-> b]

\* `not data`
Falsy(data) == data.kind \in {"absent", "empty"}

\* An environment: the requests clients send, how many transactions the run
\* may begin, whether the database can be unreachable (db), and whether
\* statements can raise (faults, raises).
EnvAll ==
    [requests   |-> {EmptyData, Object(BodyExample), Object(BodyKnown)},
     maxTx      |-> MaxTx,
     db         |-> BOOLEAN,
     faults     |-> BOOLEAN,
     raises     |-> {"none", "before_close", "after_close"}]

EnvSeq ==
    [EnvAll EXCEPT !.requests = {NoData, EmptyData, BadData, Object(BodyExample),
                                 Object(BodyFull), Object(BodyKnown), Object(BodyDefaults)},
                   !.maxTx = MaxTxSeq]

EnvRead ==
    [EnvAll EXCEPT !.requests = {Object(BodyExample), Object(BodyFull), Object(BodyKnown)},
                   !.maxTx = MaxTxRead]

EnvLive ==
    [requests   |-> {Object(BodyFull), Object(BodyKnown)},
     maxTx      |-> MaxTxLive,
     db         |-> {TRUE},
     faults     |-> {FALSE},
     raises     |-> {"none"}]

\* the clock at the start of a run: 2024-01-04 00:00
T0 == 3 * DAY

-----------------------------------------------------------------------------
(* State *)

\* the locals of a create_job request, and its response (status 0: none yet)
IdleReq ==
    [pc          |-> "idle",
     data        |-> NoData,
     conn        |-> "none",      \* none, open, closed, released
     employer    |-> NULL,        \* cur.fetchone() of the lookup
     employer_id |-> 0,
     job_id      |-> 0,
     txEmp       |-> {},          \* uncommitted rows of the connection
     txJob       |-> {},
     txStart     |-> 0,           \* NOW() of the transaction
     status      |-> 0,
     success     |-> FALSE,
     resp_job_id |-> 0]

\* no read request was served in the last step
NoRead ==
    [handler   |-> "none",
     connected |-> FALSE,         \* get_db_connection() returned a connection
     raised    |-> "none",        \* where the handler raised
     conn      |-> "none",        \* the connection when the response is returned
     status    |-> 0,
     body      |-> <<>>]

InitEmployers ==
    {[id |-> 1, phone_number |-> <<"+260111">>, company_name |-> <<"Green Valley Farms">>,
      business_type |-> "Various"]}

InitJobs ==
    {[id |-> 1, employer_id |-> 1, title |-> <<"Old">>, description |-> NULL,
      location |-> NULL, payment_amount |-> <<50>>, payment_type |-> <<"daily">>,
      status |-> "closed", created_at |-> T0 - 2 * DAY],
     [id |-> 2, employer_id |-> 1, title |-> <<"Farm Assistant">>, description |-> NULL,
      location |-> <<"Ndola">>, payment_amount |-> <<80>>, payment_type |-> <<"daily">>,
      status |-> "active", created_at |-> T0 - 3 * HOUR]}

InitPayments ==
    {[purpose |-> "Job posting", amount |-> 50, status |-> "completed",
      created_at |-> T0 - DAY, transaction_id |-> <<"TX1">>],
     [purpose |-> "Subscription", amount |-> 20, status |-> "pending",
      created_at |-> T0 - HOUR, transaction_id |-> NULL]}

Init ==
    /\ employers = InitEmployers
    /\ jobs = InitJobs
    /\ payments = InitPayments
    /\ users = InitUsers
    /\ empSeq = 1
    /\ jobSeq = 2
    /\ now = T0
    /\ cj = [r \in Reqs |-> IdleReq]
    /\ rd = NoRead

-----------------------------------------------------------------------------
(* create_job, statement by statement *)

\* the except branch: HTTP 500; the connection, if any, is neither rolled
\* back nor closed
Except(req) == [req EXCEPT !.pc = "done", !.status = 500, !.success = FALSE]

\* WHERE phone_number = %s: NULL equals nothing
SqlEq(a, b) == a # NULL /\ b # NULL /\ a = b

\* data.get('phone', '+260570528201')
PhoneOf(data) == Get(data.obj, "phone", <<"+260570528201">>)

\* the employers row of the INSERT
NewEmployer(id, data) ==
    [id            |-> id,
     phone_number  |-> PhoneOf(data),
     company_name  |-> Get(data.obj, "company", <<"Individual Employer">>),
     business_type |-> "Various"]

\* NewJob with the status left at 'pending'
NewJobPending(id, employer_id, data, t) ==
    [id             |-> id,
     employer_id    |-> employer_id,
     title          |-> GetOpt(data.obj, "title"),
     description    |-> GetOpt(data.obj, "description"),
     location       |-> GetOpt(data.obj, "location"),
     payment_amount |-> Get(data.obj, "salary", <<0>>),
     payment_type   |-> Get(data.obj, "type", <<"daily">>),
     status         |-> "pending",
     created_at     |-> t]

\* the jobs row of the INSERT; created_at is the column default, NOW()
NewJob(id, employer_id, data, t) ==
    [id             |-> id,
     employer_id    |-> employer_id,
     title          |-> GetOpt(data.obj, "title"),
     description    |-> GetOpt(data.obj, "description"),
     location       |-> GetOpt(data.obj, "location"),
     payment_amount |-> Get(data.obj, "salary", <<0>>),
     payment_type   |-> Get(data.obj, "type", <<"daily">>),
     status         |-> "active",
     created_at     |-> t]

\* CreateJobBegin with the connection acquired before the body is checked
CreateJobBeginConnectFirst(r, env) ==
    /\ cj[r].pc \in {"idle", "done"}
    /\ now + Cardinality({q \in Reqs : cj[q].pc = "lookup"}) < T0 + env.maxTx
    /\ \E data \in env.requests, connected \in env.db :
         cj' = [cj EXCEPT ![r] =
                  IF data.kind = "malformed"
                  THEN Except([IdleReq EXCEPT !.data = data])
                  ELSE IF ~connected
                  THEN [IdleReq EXCEPT !.data = data, !.pc = "done", !.status = 503]
                  ELSE IF Falsy(data)
                  THEN [IdleReq EXCEPT !.data = data, !.pc = "done", !.status = 400,
                                       !.conn = "open"]
                  ELSE [IdleReq EXCEPT !.data = data, !.pc = "lookup", !.conn = "open"]]
    /\ rd' = NoRead
    /\ UNCHANGED <<employers, jobs, payments, users, empSeq, jobSeq, now>>

\* lines 265-278: parse the body, check it, acquire the connection
CreateJobBegin(r, env) ==
    /\ cj[r].pc \in {"idle", "done"}
    /\ now + Cardinality({q \in Reqs : cj[q].pc = "lookup"}) < T0 + env.maxTx
    /\ \E data \in env.requests, connected \in env.db :
         cj' = [cj EXCEPT ![r] =
                  IF data.kind = "malformed"
                  THEN Except([IdleReq EXCEPT !.data = data])
                  ELSE IF Falsy(data)
                  THEN [IdleReq EXCEPT !.data = data, !.pc = "done", !.status = 400]
                  ELSE IF ~connected
                  THEN [IdleReq EXCEPT !.data = data, !.pc = "done", !.status = 503]
                  ELSE [IdleReq EXCEPT !.data = data, !.pc = "lookup", !.conn = "open"]]
    /\ rd' = NoRead
    /\ UNCHANGED <<employers, jobs, payments, users, empSeq, jobSeq, now>>

\* FindEmployer comparing the wrong column
FindEmployerByCompany(r) ==
    {e \in employers \cup cj[r].txEmp : SqlEq(e.company_name, PhoneOf(cj[r].data))}

\* SELECT id FROM employers WHERE phone_number = phone: the rows the
\* transaction of request r sees (committed rows and its own)
FindEmployer(r) ==
    {e \in employers \cup cj[r].txEmp : SqlEq(e.phone_number, PhoneOf(cj[r].data))}

\* lines 281-285: the transaction begins; the lookup and fetchone().  The
\* clock has advanced since the previous transaction began (a connection was
\* opened in between); NOW() of the transaction is the time it begins.
Lookup(r, env) ==
    /\ cj[r].pc = "lookup"
    /\ \E fault \in env.faults :
         IF fault
         THEN /\ cj' = [cj EXCEPT ![r] = Except(cj[r])]
              /\ UNCHANGED now
         ELSE LET found == FindEmployer(r)
              IN  /\ now' = now + 1
                  /\ IF found = {}
                     THEN cj' = [cj EXCEPT ![r].pc = "insert_employer",
                                           ![r].txStart = now + 1,
                                           ![r].employer = NULL]
                     ELSE \E e \in found :
                            cj' = [cj EXCEPT ![r].pc = "insert_job",
                                             ![r].txStart = now + 1,
                                             ![r].employer = <<e.id>>,
                                             ![r].employer_id = e.id]
    /\ rd' = NoRead
    /\ UNCHANGED <<employers, jobs, payments, users, empSeq, jobSeq>>

\* InsertEmployer as an upsert: a row committed for the phone since the
\* lookup is reused and nothing is inserted
InsertEmployerUpsert(r, env) ==
    /\ cj[r].pc = "insert_employer"
    /\ \E fault \in env.faults :
         IF fault
         THEN /\ cj' = [cj EXCEPT ![r] = Except(cj[r])]
              /\ UNCHANGED empSeq
         ELSE IF FindEmployer(r) # {}
         THEN /\ \E e \in FindEmployer(r) :
                   cj' = [cj EXCEPT ![r].pc = "insert_job", ![r].employer_id = e.id]
              /\ UNCHANGED empSeq
         ELSE /\ empSeq' = empSeq + 1
              /\ cj' = [cj EXCEPT ![r].pc = "insert_job",
                                  ![r].txEmp = {NewEmployer(empSeq + 1, cj[r].data)},
                                  ![r].employer_id = empSeq + 1]
    /\ rd' = NoRead
    /\ UNCHANGED <<employers, jobs, payments, users, jobSeq, now>>

\* InsertEmployer on a connection in autocommit mode: the row is committed
\* by the statement itself
InsertEmployerAutocommit(r, env) ==
    /\ cj[r].pc = "insert_employer"
    /\ \E fault \in env.faults :
         IF fault
         THEN /\ cj' = [cj EXCEPT ![r] = Except(cj[r])]
              /\ UNCHANGED <<empSeq, employers>>
         ELSE /\ empSeq' = empSeq + 1
              /\ employers' = employers \cup {NewEmployer(empSeq + 1, cj[r].data)}
              /\ cj' = [cj EXCEPT ![r].pc = "insert_job",
                                  ![r].employer_id = empSeq + 1]
    /\ rd' = NoRead
    /\ UNCHANGED <<jobs, payments, users, jobSeq, now>>

\* lines 286-291: INSERT INTO employers ... RETURNING id
InsertEmployer(r, env) ==
    /\ cj[r].pc = "insert_employer"
    /\ \E fault \in env.faults :
         IF fault
         THEN /\ cj' = [cj EXCEPT ![r] = Except(cj[r])]
              /\ UNCHANGED empSeq
         ELSE /\ empSeq' = empSeq + 1
              /\ cj' = [cj EXCEPT ![r].pc = "insert_job",
                                  ![r].txEmp = {NewEmployer(empSeq + 1, cj[r].data)},
                                  ![r].employer_id = empSeq + 1]
    /\ rd' = NoRead
    /\ UNCHANGED <<employers, jobs, payments, users, jobSeq, now>>

\* lines 296-310: INSERT INTO jobs ... RETURNING id
InsertJob(r, env) ==
    /\ cj[r].pc = "insert_job"
    /\ \E fault \in env.faults :
         IF fault
         THEN /\ cj' = [cj EXCEPT ![r] = Except(cj[r])]
              /\ UNCHANGED jobSeq
         ELSE /\ jobSeq' = jobSeq + 1
              /\ cj' = [cj EXCEPT ![r].pc = "commit",
                                  ![r].txJob = {NewJob(jobSeq + 1, cj[r].employer_id,
                                                       cj[r].data, cj[r].txStart)},
                                  ![r].job_id = jobSeq + 1]
    /\ rd' = NoRead
    /\ UNCHANGED <<employers, jobs, payments, users, empSeq, now>>

\* lines 311-320: conn.commit(), cur.close(), conn.close(), the response
Commit(r, env) ==
    /\ cj[r].pc = "commit"
    /\ \E fault \in env.faults :
         IF fault
         THEN /\ cj' = [cj EXCEPT ![r] = Except(cj[r])]
              /\ UNCHANGED <<employers, jobs>>
         ELSE /\ employers' = employers \cup cj[r].txEmp
              /\ jobs' = jobs \cup cj[r].txJob
              /\ cj' = [cj EXCEPT ![r].pc = "done",
                                  ![r].txEmp = {},
                                  ![r].txJob = {},
                                  ![r].conn = "closed",
                                  ![r].status = 200,
                                  ![r].success = TRUE,
                                  ![r].resp_job_id = cj[r].job_id]
    /\ rd' = NoRead
    /\ UNCHANGED <<payments, users, empSeq, jobSeq, now>>

\* A connection the handler left open is closed when the connection object
\* is reclaimed; the server rolls its open transaction back.
ReleaseConnection(r) ==
    /\ cj[r].pc = "done"
    /\ cj[r].conn = "open"
    /\ cj' = [cj EXCEPT ![r].conn = "released", ![r].txEmp = {}, ![r].txJob = {}]
    /\ rd' = NoRead
    /\ UNCHANGED <<employers, jobs, payments, users, empSeq, jobSeq, now>>

-----------------------------------------------------------------------------
(* The read handlers: one step each *)

\* the response of a read handler and the state of its connection
Response(handler, connected, raised, conn, status, body) ==
    [handler |-> handler, connected |-> connected, raised |-> raised,
     conn |-> conn, status |-> status, body |-> body]

\* health_check, lines 56-76.  No statement lies between the acquisition of
\* the connection and conn.close(), so the handler raises only after it.
HealthResponse(connected, raised) ==
    IF ~connected
    THEN Response("health_check", FALSE, "none", "none", 503,
                  [status |-> "unhealthy", database |-> "disconnected", timestamp |-> now])
    ELSE IF raised = "after_close"
    THEN Response("health_check", TRUE, raised, "closed", 500,
                  [status |-> "error", message |-> raised, timestamp |-> now])
    ELSE Response("health_check", TRUE, "none", "closed", 200,
                  [status |-> "healthy", database |-> "connected", timestamp |-> now])

\* get_stats, lines 82-122
StatsResponse(connected, raised) ==
    IF ~connected
    THEN Response("get_stats", FALSE, "none", "none", 503,
                  [status |-> "offline", message |-> "Database not connected"])
    ELSE IF raised = "none"
    THEN LET q == StatsQuery(users, jobs, employers, payments)
         IN  Response("get_stats", TRUE, raised, "closed", 200,
                      [status |-> "online", total_users |-> q.total_users,
                       active_jobs |-> q.active_jobs,
                       total_employers |-> q.total_employers,
                       total_revenue |-> q.total_revenue, timestamp |-> now])
    ELSE Response("get_stats", TRUE, raised,
                  IF raised = "before_close" THEN "open" ELSE "closed", 500,
                  [status |-> "offline", error |-> raised])

\* JobsResponse with an except branch that reports the error
JobsResponseSurfacing(connected, raised) ==
    IF ~connected
    THEN Response("get_jobs", FALSE, "none", "none", 200, MockJobsNoDb)
    ELSE IF raised = "none"
    THEN LET rows == JobsQuery(jobs, employers, now)
         IN  Response("get_jobs", TRUE, raised, "closed", 200,
                      [i \in 1..Len(rows) |-> ShapeJob(rows[i])])
    ELSE Response("get_jobs", TRUE, raised,
                  IF raised = "before_close" THEN "open" ELSE "closed", 500, <<>>)

\* get_jobs, lines 127-221
JobsResponse(connected, raised) ==
    IF ~connected
    THEN Response("get_jobs", FALSE, "none", "none", 200, MockJobsNoDb)
    ELSE IF raised = "none"
    THEN LET rows == JobsQuery(jobs, employers, now)
         IN  Response("get_jobs", TRUE, raised, "closed", 200,
                      [i \in 1..Len(rows) |-> ShapeJob(rows[i])])
    ELSE Response("get_jobs", TRUE, raised,
                  IF raised = "before_close" THEN "open" ELSE "closed", 200, MockJobsOnError)

\* get_payments, lines 226-260
PaymentsResponse(connected, raised) ==
    IF ~connected
    THEN Response("get_payments", FALSE, "none", "none", 200, <<>>)
    ELSE IF raised = "none"
    THEN LET rows == PaymentsQuery(payments)
         IN  Response("get_payments", TRUE, raised, "closed", 200,
                      [i \in 1..Len(rows) |-> ShapePayment(rows[i])])
    ELSE Response("get_payments", TRUE, raised,
                  IF raised = "before_close" THEN "open" ELSE "closed", 200, <<>>)

HealthCheck(env) ==
    /\ \E connected \in env.db, raised \in env.raises :
         rd' = HealthResponse(connected, raised)
    /\ UNCHANGED <<employers, jobs, payments, users, empSeq, jobSeq, now, cj>>

GetStats(env) ==
    /\ \E connected \in env.db, raised \in env.raises :
         rd' = StatsResponse(connected, raised)
    /\ UNCHANGED <<employers, jobs, payments, users, empSeq, jobSeq, now, cj>>

GetJobs(env) ==
    /\ \E connected \in env.db, raised \in env.raises :
         rd' = JobsResponse(connected, raised)
    /\ UNCHANGED <<employers, jobs, payments, users, empSeq, jobSeq, now, cj>>

GetPayments(env) ==
    /\ \E connected \in env.db, raised \in env.raises :
         rd' = PaymentsResponse(connected, raised)
    /\ UNCHANGED <<employers, jobs, payments, users, empSeq, jobSeq, now, cj>>

\* the connection a read handler left open is closed when it is reclaimed
ReleaseRead ==
    /\ rd.conn = "open"
    /\ rd' = [rd EXCEPT !.conn = "released"]
    /\ UNCHANGED <<employers, jobs, payments, users, empSeq, jobSeq, now, cj>>

-----------------------------------------------------------------------------
(* Specifications *)

\* requests served concurrently, the database may fail at any statement
Next ==
    \/ \E r \in Reqs : CreateJobBegin(r, EnvAll)
    \/ \E r \in Reqs : Lookup(r, EnvAll)
    \/ \E r \in Reqs : InsertEmployer(r, EnvAll)
    \/ \E r \in Reqs : InsertJob(r, EnvAll)
    \/ \E r \in Reqs : Commit(r, EnvAll)
    \/ \E r \in Reqs : ReleaseConnection(r)

Spec == Init /\ [][Next]_vars

\* all five handlers, a single worker
NextRead ==
    \/ CreateJobBegin(1, EnvRead)
    \/ Lookup(1, EnvRead)
    \/ InsertEmployer(1, EnvRead)
    \/ InsertJob(1, EnvRead)
    \/ Commit(1, EnvRead)
    \/ ReleaseConnection(1)
    \/ HealthCheck(EnvRead)
    \/ GetStats(EnvRead)
    \/ GetJobs(EnvRead)
    \/ GetPayments(EnvRead)
    \/ ReleaseRead

SpecRead == Init /\ [][NextRead]_vars

\* a single worker: create_job requests are served one at a time
NextSeq ==
    \/ CreateJobBegin(1, EnvSeq)
    \/ Lookup(1, EnvSeq)
    \/ InsertEmployer(1, EnvSeq)
    \/ InsertJob(1, EnvSeq)
    \/ Commit(1, EnvSeq)
    \/ ReleaseConnection(1)

SpecSeq == Init /\ [][NextSeq]_vars

\* a live database and a single worker: create_job requests and the listing
NextLive ==
    \/ CreateJobBegin(1, EnvLive)
    \/ Lookup(1, EnvLive)
    \/ InsertEmployer(1, EnvLive)
    \/ InsertJob(1, EnvLive)
    \/ Commit(1, EnvLive)
    \/ GetJobs(EnvLive)

SpecLive == Init /\ [][NextLive]_vars

\* the listing of one job of any age up to MaxAgeDays days
InitLabel ==
    /\ employers = InitEmployers
    /\ payments = InitPayments
    /\ users = InitUsers
    /\ empSeq = 1
    /\ jobSeq = 1
    /\ now = T0 + MaxAgeDays * DAY
    /\ \E age \in 0..(MaxAgeDays * DAY) :
         jobs = {NewJob(1, 1, Object(BodyFull), now - age)}
    /\ cj = [r \in Reqs |-> IdleReq]
    /\ rd = NoRead

NextLabel == GetJobs(EnvLive)

SpecLabel == InitLabel /\ [][NextLabel]_vars

-----------------------------------------------------------------------------
(* Properties *)

\* a request whose transaction is past the employer step
PastEmployerStep(r) == cj[r].pc \in {"insert_job", "commit"}

\* a request answered 200
Created(r) == cj[r].pc = "done" /\ cj[r].status = 200

\* C1 (SpecSeq): with one request served at a time, no two employer rows
\* share a phone number, and a request whose lookup found the phone uses the
\* id of an existing row with that phone and inserts no employer row.
C1_UniquePhoneSequential ==
    /\ \A e1, e2 \in employers :
         SqlEq(e1.phone_number, e2.phone_number) => e1 = e2
    /\ \A r \in Reqs :
         (PastEmployerStep(r) \/ Created(r)) /\ cj[r].employer # NULL =>
            /\ cj[r].txEmp = {}
            /\ \E e \in employers :
                 /\ e.id = cj[r].employer_id
                 /\ SqlEq(e.phone_number, PhoneOf(cj[r].data))
    /\ \A r \in Reqs :
         PastEmployerStep(r) /\ cj[r].employer = NULL =>
            \A e \in employers : ~SqlEq(e.phone_number, PhoneOf(cj[r].data))

\* C1 witness: a second request for a phone that the first one introduced was
\* answered 200 with the existing employer, and there are still two rows.
C1_Witness ==
    \E r \in Reqs :
       /\ Created(r)
       /\ cj[r].employer # NULL
       /\ PhoneOf(cj[r].data) = <<"+260999">>
       /\ Cardinality(employers) = 2
       /\ Cardinality(jobs) = 4

\* C2 (Spec): a request whose lookup found no employer and whose statements
\* all succeed commits exactly one employer row and one job row; the job row
\* references the employer and is active; the response is 200, success, and
\* job_id is the id of the inserted job row.
C2_CreateCommitsOneOfEach ==
    [][\A r \in Reqs :
         cj[r].pc = "commit" /\ cj'[r].pc = "done" /\ cj'[r].status # 500
            /\ cj[r].employer = NULL =>
         \E e \in employers' \ employers, j \in jobs' \ jobs :
            /\ employers' = employers \cup {e}
            /\ jobs' = jobs \cup {j}
            /\ e.phone_number = PhoneOf(cj[r].data)
            /\ j.employer_id = e.id
            /\ j.status = "active"
            /\ j.title = GetOpt(cj[r].data.obj, "title")
            /\ cj'[r].status = 200
            /\ cj'[r].success
            /\ cj'[r].resp_job_id = j.id
            /\ cj'[r].conn = "closed"]_vars

\* C2 witness: the request {title, phone "+260999"} was answered 200 after
\* creating the employer row and the job row it reports.
C2_Witness ==
    \E r \in Reqs :
       /\ Created(r)
       /\ cj[r].employer = NULL
       /\ cj[r].data = Object(BodyExample)
       /\ \E e \in employers : e.id = cj[r].employer_id /\ e.phone_number = <<"+260999">>
       /\ \E j \in jobs : j.id = cj[r].resp_job_id /\ j.employer_id = cj[r].employer_id

\* C3 (Spec): the lookup-or-insert sequence is not atomic.  A request whose
\* lookup found nothing inserts an employer row with its phone whatever has
\* been committed since, and its commit adds that row to the table even if
\* the table holds the phone by then.
C3_InsertWithoutRecheck ==
    [][\A r \in Reqs :
         /\ cj[r].pc = "insert_employer" /\ cj'[r].pc = "insert_job" =>
              /\ cj'[r].txEmp = {NewEmployer(empSeq', cj[r].data)}
              /\ cj'[r].employer_id = empSeq'
              /\ empSeq' \notin {e.id : e \in employers}
         /\ cj[r].pc = "commit" /\ cj'[r].pc = "done" /\ cj'[r].status = 200 =>
              employers' = employers \cup cj[r].txEmp]_vars

\* C3 witness: two committed employer rows carry the same phone number.
C3_Witness ==
    \E e1, e2 \in employers :
       e1.id # e2.id /\ SqlEq(e1.phone_number, e2.phone_number)

\* C4 (SpecSeq): a request with an empty or absent body is answered 400
\* without a connection, and leaves tables and sequences as they were.
C4_EmptyBodyTouchesNothing ==
    [][\A r \in Reqs :
         cj[r].pc \in {"idle", "done"} /\ cj'[r] # cj[r] /\ Falsy(cj'[r].data)
            /\ cj'[r].conn # "released" =>
         /\ cj'[r].pc = "done"
         /\ cj'[r].status = 400
         /\ cj'[r].conn = "none"
         /\ cj'[r].txEmp = {} /\ cj'[r].txJob = {}
         /\ employers' = employers /\ jobs' = jobs
         /\ empSeq' = empSeq /\ jobSeq' = jobSeq]_vars

\* C4 witness: a request without a body was answered 400 after jobs had been
\* created by earlier requests.
C4_Witness ==
    \E r \in Reqs :
       /\ cj[r].pc = "done" /\ cj[r].status = 400
       /\ cj[r].data = NoData
       /\ Cardinality(jobs) > 2

\* the response in rd is a listing answered from the database
LiveListing == rd.handler = "get_jobs" /\ rd.connected /\ rd.raised = "none"

\* the committed job row with the given id
JobOf(id) == CHOOSE j \in jobs : j.id = id

\* C5 (SpecRead): /api/jobs and /api/payments always answer 200; without a
\* connection or when a step raises, /api/jobs answers the same two mock jobs
\* (ids 1 and 2, "Construction Worker" and "Farm Assistant") and
\* /api/payments answers the empty list.
C5_ListingsNeverSurfaceErrors ==
    /\ rd.handler = "get_jobs" =>
         /\ rd.status = 200
         /\ ~rd.connected \/ rd.raised # "none" =>
              /\ rd.body = MockJobsNoDb
              /\ Len(rd.body) = 2
              /\ rd.body[1].id = 1 /\ rd.body[1].title = <<"Construction Worker">>
              /\ rd.body[2].id = 2 /\ rd.body[2].title = <<"Farm Assistant">>
    /\ rd.handler = "get_payments" =>
         /\ rd.status = 200
         /\ ~rd.connected \/ rd.raised # "none" => rd.body = <<>>

\* C5 witness: the jobs query raised on a database that holds created jobs,
\* and the mock list was answered.
C5_Witness ==
    /\ rd.handler = "get_jobs" /\ rd.connected /\ rd.raised = "before_close"
    /\ rd.body = MockJobsOnError
    /\ Cardinality(jobs) > 2

\* a request whose employer INSERT succeeded and whose job INSERT raised
EmployerOnly(r) ==
    /\ cj[r].pc = "done"
    /\ cj[r].employer = NULL
    /\ cj[r].employer_id # 0
    /\ cj[r].job_id = 0

\* C6 as claimed (Spec): after the job INSERT of a request failed, the
\* employer row the request inserted remains in the employers table.
C6_EmployerRowRemains ==
    \A r \in Reqs :
       EmployerOnly(r) => \E e \in employers : e.id = cj[r].employer_id

\* C6 amended (Spec): after the job INSERT of a request failed, the request
\* is answered 500 with success false and the handler has neither rolled
\* back nor closed the connection; the employer row was never committed, so
\* it is in the employers table at no time, and it is gone from the
\* transaction once the connection is reclaimed.
C6_EmployerRowNeverCommitted ==
    \A r \in Reqs :
       EmployerOnly(r) =>
          /\ cj[r].status = 500
          /\ ~cj[r].success
          /\ cj[r].conn \in {"open", "released"}
          /\ \A e \in employers : e.id # cj[r].employer_id
          /\ cj[r].conn = "open" =>
               cj[r].txEmp = {NewEmployer(cj[r].employer_id, cj[r].data)}
          /\ cj[r].conn = "released" => cj[r].txEmp = {}

\* C6 witness: a request was answered 500 after inserting an employer row,
\* its connection still open with the row uncommitted.
C6_Witness ==
    \E r \in Reqs :
       /\ EmployerOnly(r)
       /\ cj[r].status = 500
       /\ cj[r].conn = "open"
       /\ cj[r].txEmp # {}

\* the salary and type create_job stores for a request body
SalaryOf(data) == Get(data.obj, "salary", <<0>>)
TypeOf(data) == Get(data.obj, "type", <<"daily">>)

\* C7 as claimed (SpecRead): a job created with salary s and type t is
\* listed with salary "K<s>/<t>" whenever the stored amount is present, and
\* "Negotiable" only when it is absent.
C7_RenderedWhenPresent ==
    LiveListing =>
       \A r \in Reqs, i \in 1..Len(rd.body) :
          Created(r) /\ rd.body[i].id = cj[r].resp_job_id =>
             rd.body[i].salary =
                IF SalaryOf(cj[r].data) # NULL
                THEN "K" \o ToString(SalaryOf(cj[r].data)[1]) \o "/"
                         \o TypeOf(cj[r].data)[1]
                ELSE "Negotiable"

\* C7 amended (SpecRead): a job created with salary s and type t is listed
\* with salary "K<s>/<t>" when s is a number other than 0, and "Negotiable"
\* when s is null or 0, which includes the default salary 0 of a request
\* without a salary.
C7_RenderedWhenNonZero ==
    LiveListing =>
       \A r \in Reqs, i \in 1..Len(rd.body) :
          Created(r) /\ rd.body[i].id = cj[r].resp_job_id =>
             rd.body[i].salary =
                IF SalaryOf(cj[r].data) # NULL /\ SalaryOf(cj[r].data)[1] # 0
                THEN "K" \o ToString(SalaryOf(cj[r].data)[1]) \o "/"
                         \o TypeOf(cj[r].data)[1]
                ELSE "Negotiable"

\* C7 witness: the listing shows the job of a request without a salary as
\* "Negotiable" next to a job created with salary 120 and type daily as
\* "K120/daily".
C7_Witness ==
    /\ LiveListing
    /\ \E r \in Reqs, i, k \in 1..Len(rd.body) :
          /\ Created(r)
          /\ cj[r].data = Object(BodyExample)
          /\ rd.body[i].id = cj[r].resp_job_id
          /\ rd.body[i].salary = "Negotiable"
          /\ JobOf(rd.body[k].id).payment_amount = <<120>>
          /\ rd.body[k].salary = "K120/daily"

C9_PostedLabel ==
    rd.handler = "get_jobs" =>
       /\ Len(rd.body) = 1
       /\ LET created == JobOf(rd.body[1].id).created_at
              age     == now - created
              label   == rd.body[1].posted
          IN  /\ age < HOUR => label = "Just now"
              /\ HOUR <= age /\ age < DAY =>
                   label = ToString(age \div HOUR) \o " hours ago"
              /\ age = HOUR => label = "1 hours ago"
              /\ age = 3 * HOUR => label = "3 hours ago"
              /\ age = DAY - 1 => label = "23 hours ago"
              /\ age >= DAY => label = ToCharDDMonYYYY(created)
              /\ created = T0 /\ age >= DAY => label = "04 Jan 2024"

\* C9 witness: a job created exactly 3 hours ago is listed as "3 hours ago".
C9_Witness ==
    /\ rd.handler = "get_jobs"
    /\ Len(rd.body) = 1
    /\ now - JobOf(rd.body[1].id).created_at = 3 * HOUR
    /\ rd.body[1].posted = "3 hours ago"

\* C10 as claimed (SpecRead): whenever a request has been answered, the
\* connection it obtained, if any, has been closed by the handler.
C10_ConnectionClosedWhenAnswered ==
    /\ rd.handler # "none" => rd.conn \in {"none", "closed"}
    /\ \A r \in Reqs : cj[r].pc = "done" => cj[r].conn \in {"none", "closed"}

====
